---- MODULE Spec2Model ----
(***************************************************************************)
(* Trip planner (src/app.py): the retrying fetch helper _get_json, the     *)
(* four provider adapters, the fan-out of plan_trip over three asyncio     *)
(* tasks joined with asyncio.gather, and the deterministic synthesis of    *)
(* the day plans.                                                          *)
(*                                                                         *)
(* Spec      : one plan_trip request, from the POST to its response.       *)
(* SpecFetch : one call of _get_json on its own, with a richer set of      *)
(*             upstream answers.                                           *)
(***************************************************************************)
EXTENDS Integers, Sequences, FiniteSets, TLC

\* ------------------------------------------------------------------------
\* Settings and bounds
\* ------------------------------------------------------------------------
\* Settings.MAX_RETRIES (default value)
MAX_RETRIES == 3

\* largest `days` of a request that is explored (TripRequest allows 1..21)
MaxDays == 2
\* largest number of pages the geosearch answers (gslimit is 8)
MaxPois == 3
\* largest number of events the events upstream answers (size is 20)
MaxEvents == 2

CallIds == {"geocode", "forecast", "wiki_search", "wiki_detail", "events"}
Branches == {"forecast", "wiki_pois", "ticketmaster_events"}

\* ------------------------------------------------------------------------
\* _get_json: one attempt and the tenacity policy around it
\* ------------------------------------------------------------------------
\* An upstream answer to one client.get: status 0 stands for an
\* httpx.RequestError (connect/timeout failure, no response object);
\* json says whether the body of a 2xx answer parses; body is the parsed
\* value (every JSON value the adapters read is modelled as a sequence).
Answer(s, j, b) == [status |-> s, json |-> j, body |-> b]

NoErr == [cls |-> "none", status |-> 0, attempt |-> 0]
Err(c, s, k) == [cls |-> c, status |-> s, attempt |-> k]

\* As AttemptResult, with every 4xx answer re-raised as it is (the test
\* `code == 404` widened to all of 4xx).
AttemptResult4xxPermanent(o, k) ==
    IF o.status = 0
    THEN [kind |-> "raise", err |-> Err("AttributeError", 0, k), value |-> <<>>]
    ELSE IF o.status >= 500
    THEN [kind |-> "raise", err |-> Err("ExternalError", o.status, k), value |-> <<>>]
    ELSE IF o.status >= 400
    THEN [kind |-> "raise", err |-> Err("HTTPStatusError", o.status, k), value |-> <<>>]
    ELSE IF ~o.json
    THEN [kind |-> "raise", err |-> Err("JSONDecodeError", o.status, k), value |-> <<>>]
    ELSE [kind |-> "return", err |-> NoErr, value |-> o.body]

\* As AttemptResult, without the test `code == 404`: a 404 is wrapped in
\* ExternalError like the other statuses.
AttemptResult404Wrapped(o, k) ==
    IF o.status = 0
    THEN [kind |-> "raise", err |-> Err("AttributeError", 0, k), value |-> <<>>]
    ELSE IF o.status >= 400
    THEN [kind |-> "raise", err |-> Err("ExternalError", o.status, k), value |-> <<>>]
    ELSE IF ~o.json
    THEN [kind |-> "raise", err |-> Err("JSONDecodeError", o.status, k), value |-> <<>>]
    ELSE [kind |-> "return", err |-> NoErr, value |-> o.body]

\* The body of _get_json for attempt number k, given the upstream answer.
AttemptResult(o, k) ==
    IF o.status = 0
    THEN \* except httpx.HTTPError as e: e.response does not exist on a
         \* RequestError, so evaluating it raises AttributeError
         [kind |-> "raise", err |-> Err("AttributeError", 0, k), value |-> <<>>]
    ELSE IF o.status >= 500
    THEN [kind |-> "raise", err |-> Err("ExternalError", o.status, k), value |-> <<>>]
    ELSE IF o.status >= 400
    THEN \* raise_for_status() raises HTTPStatusError, caught below it
         IF o.status = 404
         THEN [kind |-> "raise", err |-> Err("HTTPStatusError", 404, k), value |-> <<>>]
         ELSE [kind |-> "raise", err |-> Err("ExternalError", o.status, k), value |-> <<>>]
    ELSE IF ~o.json
    THEN \* r.json() raises a ValueError, which is no httpx.HTTPError
         [kind |-> "raise", err |-> Err("JSONDecodeError", o.status, k), value |-> <<>>]
    ELSE [kind |-> "return", err |-> NoErr, value |-> o.body]

\* retry=retry_if_exception_type(httpx.HTTPError) instead
RetryIfHttpError(e) == e.cls = "HTTPStatusError"

\* retry=retry_if_exception_type(ExternalError)
RetryIf(e) == e.cls = "ExternalError"

\* stop=stop_after_attempt(settings.MAX_RETRIES + 1) instead
StopAfterAttemptPlusOne(k) == k >= MAX_RETRIES + 1

\* stop=stop_after_attempt(settings.MAX_RETRIES)
StopAfterAttempt(k) == k >= MAX_RETRIES

\* reraise=False: tenacity raises its own RetryError instead
ReraiseWrapped(e) == Err("RetryError", 0, e.attempt)

\* reraise=True: when the attempts are used up the last attempt's exception
\* is raised itself
Reraise(e) == e

\* The state of one call of _get_json.
\*   pc       idle | inflight | backoff | returned | raised
\*   attempts tenacity's attempt number (calls of the function body)
\*   hist     the answers received so far, oldest first: the status, the
\*            body and the class of the exception the attempt raised
\*   value    the value returned
\*   err      the exception raised to the caller; during a backoff, the
\*            exception of the attempt before it (tenacity's outcome)
IdleCall == [pc |-> "idle", attempts |-> 0, hist |-> <<>>, value |-> <<>>, err |-> NoErr]

\* Entering the function body: client.get on a closed client raises
\* RuntimeError before anything is sent.
SendAttempt(cr, cl) ==
    IF cl = "closed"
    THEN [cr EXCEPT !.pc = "raised", !.attempts = @ + 1,
                    !.err = Err("RuntimeError", 0, cr.attempts + 1)]
    ELSE [cr EXCEPT !.pc = "inflight", !.attempts = @ + 1, !.err = NoErr]

\* The answer o arrives for the attempt in flight.
GetJsonStep(cr, o) ==
    LET k == cr.attempts
        r == AttemptResult(o, k)
        h == Append(cr.hist, [status |-> o.status, body |-> o.body, raised |-> r.err.cls])
    IN  IF r.kind = "return"
        THEN [cr EXCEPT !.pc = "returned", !.hist = h, !.value = r.value]
        ELSE IF RetryIf(r.err)
        THEN IF StopAfterAttempt(k)
             THEN [cr EXCEPT !.pc = "raised", !.hist = h, !.err = Reraise(r.err)]
             ELSE [cr EXCEPT !.pc = "backoff", !.hist = h, !.err = r.err]
        ELSE [cr EXCEPT !.pc = "raised", !.hist = h, !.err = r.err]

\* HTTP requests a call has sent so far
HttpAttempts(cr) == Len(cr.hist) + (IF cr.pc = "inflight" THEN 1 ELSE 0)

\* ------------------------------------------------------------------------
\* Dates: today + timedelta(days=i), isoformat()
\* ------------------------------------------------------------------------
\* A date is counted in days from 1 January of BaseYear (= 1); neither
\* BaseYear nor the year after it is a leap year.
BaseYear == 2026
DaysInMonth == <<31, 28, 31, 30, 31, 30, 31, 31, 30, 31, 30, 31>>

RECURSIVE MonthDay(_, _)
MonthDay(m, d) ==
    IF d <= DaysInMonth[m] THEN <<m, d>> ELSE MonthDay(m + 1, d - DaysInMonth[m])

\* date.isoformat(): <<year, month, day>>
IsoFormat(n) ==
    LET y  == (n - 1) \div 365
        md == MonthDay(1, ((n - 1) % 365) + 1)
    IN  <<BaseYear + y, md[1], md[2]>>

\* range(1, days + 1) instead of range(days): the dates start tomorrow
TripDatesFromTomorrow(t, d) == [i \in 1..d |-> IsoFormat(t + i)]

\* dates = [(today + timedelta(days=i)).isoformat() for i in range(days)]
TripDates(t, d) == [i \in 1..d |-> IsoFormat(t + (i - 1))]

\* the clock reading explored: 31 December, so that the second day of a
\* trip falls in the next month and year
Todays == {365}

\* round(x / q) as Python rounds (half to even), for x >= 0
RoundHalfEven(x, q) ==
    LET n == x \div q
        r == x % q
    IN  IF 2 * r < q THEN n
        ELSE IF 2 * r > q THEN n + 1
        ELSE IF n % 2 = 0 THEN n ELSE n + 1

\* ------------------------------------------------------------------------
\* Upstream bodies (the JSON values the adapters read)
\* ------------------------------------------------------------------------
\* geocode: the "results" array, empty or one place
Place == [name |-> "Paris", country |-> "France", latitude |-> 48,
          longitude |-> 2, timezone |-> "Europe/Paris"]
GeocodeBodies == {<<>>, <<Place>>}

\* forecast: the five arrays of "daily", in the order
\* time, temperature_2m_max, temperature_2m_min, precipitation_sum,
\* weathercode; temperatures in tenths of a degree, rain in tenths of mm.
TempOf(i, v) == IF (i + v) % 3 = 1 THEN 300 ELSE IF (i + v) % 3 = 2 THEN 90 ELSE 150
RainOf(i, v) == IF (i + v) % 2 = 0 THEN 50 ELSE 0
Daily(n, v) ==
    << [i \in 1..n |-> i],
       [i \in 1..n |-> TempOf(i, v)],
       [i \in 1..n |-> TempOf(i, v) - 80],
       [i \in 1..n |-> RainOf(i, v)],
       [i \in 1..n |-> IF RainOf(i, v) > 0 THEN 61 ELSE 0] >>
\* answers of 0, 1 and days + 1 dates
ForecastBodies == {Daily(n, 0) : n \in {0, 1, MaxDays + 1}}

\* wiki geosearch: the "geosearch" array; dist in metres; answers of 0, 1,
\* 2 and MaxPois pages
SearchBody(n) == [i \in 1..n |-> [pageid |-> i, dist |-> 1000 * i + 5 * i]]
SearchBodies == {SearchBody(n) : n \in {0, 1, 2, MaxPois}}

\* wiki detail: the values of "pages" for the page ids asked for, here in
\* the reverse of the order asked
Reverse(s) == [i \in 1..Len(s) |-> s[Len(s) + 1 - i]]
DetailOf(pages) == [i \in 1..Len(pages) |-> [pageid |-> pages[i].pageid, title |-> pages[i].pageid]]
DetailBodies(pages) == {Reverse(DetailOf(pages))}

\* events: the "_embedded.events" array; venue 0 stands for no venue;
\* answers of 0, 1 and MaxEvents events
EventsBody(n) == [i \in 1..n |-> [name |-> 100 + i, venue |-> IF i % 2 = 1 THEN 200 + i ELSE 0]]
EventsBodies == {EventsBody(n) : n \in {0, 1, MaxEvents}}

\* ------------------------------------------------------------------------
\* The adapters' normalisation of a body that _get_json returned
\* ------------------------------------------------------------------------
\* geocode: results = data.get("results") or []; empty raises
\* HTTPException(404, "Destination not found")
DestinationNotFound == [cls |-> "HTTPException", status |-> 404, attempt |-> 0]
GeocodeFound(results) == Len(results) > 0
GeocodeOut(results) ==
    LET top == results[1]
    IN  [name |-> top.name, country |-> top.country, lat |-> top.latitude,
         lon |-> top.longitude,
         timezone |-> IF top.timezone = "" THEN "UTC" ELSE top.timezone]

code_to_text(c) ==
    IF c \in {0} THEN "Clear"
    ELSE IF c \in {1, 2, 3} THEN "Partly cloudy"
    ELSE IF c \in {45, 48} THEN "Fog"
    ELSE IF c \in {51, 53, 55, 56, 57} THEN "Drizzle"
    ELSE IF c \in {61, 63, 65, 66, 67} THEN "Rain"
    ELSE IF c \in {71, 73, 75, 77} THEN "Snow"
    ELSE IF c \in {80, 81, 82} THEN "Rain showers"
    ELSE IF c \in {85, 86} THEN "Snow showers"
    ELSE IF c \in {95, 96, 99} THEN "Thunderstorm"
    ELSE "Mixed"

Min(a, b) == IF a < b THEN a ELSE b
Max(a, b) == IF a > b THEN a ELSE b

\* enumerate(dates) instead of enumerate(dates[:days])
ForecastTakenAll(daily, d) == Len(daily[1])

\* forecast: for i, d in enumerate(dates[:days]); an array shorter than
\* the time array raises IndexError at maxs[i]
ForecastTaken(daily, d) == Min(d, Len(daily[1]))
ForecastRaises(daily, d) ==
    \E j \in 2..5 : Len(daily[j]) < ForecastTaken(daily, d)
ForecastOut(daily, d) ==
    [i \in 1..ForecastTaken(daily, d) |->
        [date |-> daily[1][i], temp_day_c |-> daily[2][i], temp_night_c |-> daily[3][i],
         precipitation_mm |-> daily[4][i], condition |-> code_to_text(daily[5][i])]]

\* wiki_pois: one POI per page of the detail answer, the distance joined
\* from the geosearch answer by page id (-1 stands for None)
DistanceKm(pages, pid) ==
    IF \E i \in 1..Len(pages) : pages[i].pageid = pid
    THEN LET i == CHOOSE j \in 1..Len(pages) :
                     /\ pages[j].pageid = pid
                     /\ \A k \in 1..(j - 1) : pages[k].pageid # pid
         IN  RoundHalfEven(pages[i].dist, 10)
    ELSE -1
WikiOut(pages, det) ==
    [i \in 1..Len(det) |->
        [name |-> det[i].title, distance_km |-> DistanceKm(pages, det[i].pageid)]]

\* ticketmaster_events: one Event per upstream event
EventsOut(events) ==
    [i \in 1..Len(events) |-> [title |-> events[i].name, venue |-> events[i].venue]]

\* ------------------------------------------------------------------------
\* Itinerary, packing list, summary, polish
\* ------------------------------------------------------------------------
\* A name is a POI title, an event title or venue, or a fixed phrase.
Title(id) == [kind |-> "title", id |-> id]
Phrase(p) == [kind |-> p, id |-> 0]
\* A text: a format with up to two names put in; polished says whether the
\* language model rewrote it.
Text(fmt, a, b) == [fmt |-> fmt, a |-> a, b |-> b, polished |-> FALSE]

Meals == << Text("plain", Phrase("Local bakery breakfast"), Phrase("")),
            Text("plain", Phrase("Regional specialty lunch"), Phrase("")),
            Text("plain", Phrase("Well-reviewed dinner spot"), Phrase("")) >>

\* As plan_blocks, with the three placeholders rotated by the day index.
plan_blocksRotatingPlaceholders(day_idx, date_str, pois, events) ==
    LET P  == Len(pois)
        ph == <<"Neighborhood walk", "Museum or gallery", "Food market & riverfront">>
        poi_m == IF P > 0 THEN Title(pois[((day_idx * 3 + 0) % Max(1, P)) + 1].name)
                 ELSE Phrase(ph[(day_idx % 3) + 1])
        poi_a == IF P > 1 THEN Title(pois[((day_idx * 3 + 1) % Max(1, P)) + 1].name)
                 ELSE Phrase(ph[((day_idx + 1) % 3) + 1])
        eve_text ==
            IF day_idx < Len(events)
            THEN Text("Attend: {} @ {}", Title(events[day_idx + 1].title),
                      Title(events[day_idx + 1].venue))
            ELSE IF P > 2
            THEN Text("{}", Title(pois[((day_idx * 3 + 2) % Max(1, P)) + 1].name), Phrase(""))
            ELSE Text("{}", Phrase(ph[((day_idx + 2) % 3) + 1]), Phrase(""))
    IN  [day |-> day_idx + 1, date |-> date_str,
         morning |-> Text("Explore: {}", poi_m, Phrase("")),
         afternoon |-> Text("Visit: {}", poi_a, Phrase("")),
         evening |-> eve_text,
         meals |-> Meals]

\* As plan_blocks, with the events rotated like the POIs: events[day_idx % E].
plan_blocksEventsWrapped(day_idx, date_str, pois, events) ==
    LET P == Len(pois)
        E == Len(events)
        poi_m == IF P > 0 THEN Title(pois[((day_idx * 3 + 0) % Max(1, P)) + 1].name)
                 ELSE Phrase("Neighborhood walk")
        poi_a == IF P > 1 THEN Title(pois[((day_idx * 3 + 1) % Max(1, P)) + 1].name)
                 ELSE Phrase("Museum or gallery")
        eve_text ==
            IF E > 0
            THEN Text("Attend: {} @ {}", Title(events[(day_idx % E) + 1].title),
                      Title(events[(day_idx % E) + 1].venue))
            ELSE IF P > 2
            THEN Text("{}", Title(pois[((day_idx * 3 + 2) % Max(1, P)) + 1].name), Phrase(""))
            ELSE Text("{}", Phrase("Food market & riverfront"), Phrase(""))
    IN  [day |-> day_idx + 1, date |-> date_str,
         morning |-> Text("Explore: {}", poi_m, Phrase("")),
         afternoon |-> Text("Visit: {}", poi_a, Phrase("")),
         evening |-> eve_text,
         meals |-> Meals]

\* plan_blocks(day_idx, date_str, pois, events); Python's index j is j + 1
plan_blocks(day_idx, date_str, pois, events) ==
    LET P == Len(pois)
        poi_m == IF P > 0 THEN Title(pois[((day_idx * 3 + 0) % Max(1, P)) + 1].name)
                 ELSE Phrase("Neighborhood walk")
        poi_a == IF P > 1 THEN Title(pois[((day_idx * 3 + 1) % Max(1, P)) + 1].name)
                 ELSE Phrase("Museum or gallery")
        eve_text ==
            IF day_idx < Len(events)
            THEN Text("Attend: {} @ {}", Title(events[day_idx + 1].title),
                      Title(events[day_idx + 1].venue))
            ELSE IF P > 2
            THEN Text("{}", Title(pois[((day_idx * 3 + 2) % Max(1, P)) + 1].name), Phrase(""))
            ELSE Text("{}", Phrase("Food market & riverfront"), Phrase(""))
    IN  [day |-> day_idx + 1, date |-> date_str,
         morning |-> Text("Explore: {}", poi_m, Phrase("")),
         afternoon |-> Text("Visit: {}", poi_a, Phrase("")),
         evening |-> eve_text,
         meals |-> Meals]

\* The subscripts plan_blocks evaluates for lists of P POIs and E events:
\* the list, its length and the Python index; a conditional expression
\* evaluates its subscript only when its condition holds.
PlanBlocksSubscripts(day_idx, P, E) ==
    (IF P > 0
     THEN {[list |-> "pois", len |-> P, index |-> (day_idx * 3 + 0) % Max(1, P)]}
     ELSE {})
    \cup (IF P > 1
          THEN {[list |-> "pois", len |-> P, index |-> (day_idx * 3 + 1) % Max(1, P)]}
          ELSE {})
    \cup (IF day_idx < E
          THEN {[list |-> "events", len |-> E, index |-> day_idx]}
          ELSE IF P > 2
          THEN {[list |-> "pois", len |-> P, index |-> (day_idx * 3 + 2) % Max(1, P)]}
          ELSE {})

\* for i, d in enumerate(dates): daily.append(plan_blocks(i, d, pois, events))
BuildDaily(dates, pois, events) ==
    [i \in 1..Len(dates) |-> plan_blocks(i - 1, dates[i], pois, events)]

\* As build_packing_list, with the conditional items appended inside a loop
\* over the days instead of after any(...): one item per triggering day.
build_packing_listPerDay(forecast_days) ==
    LET n     == Len(forecast_days)
        hotN  == Cardinality({i \in 1..n : forecast_days[i].temp_day_c >= 270})
        coldN == Cardinality({i \in 1..n : forecast_days[i].temp_day_c <= 100})
        wetN  == Cardinality({i \in 1..n : forecast_days[i].precipitation_mm >= 20})
    IN  [essentials  |-> <<"Passport/ID", "Wallet", "Phone + charger", "Meds", "Reusable bottle">>
                            \o [j \in 1..wetN |-> "Compact umbrella / rain jacket"],
         clothing    |-> <<"Walking shoes", "Socks/underwear", "Tops/bottoms">>
                            \o [j \in 1..hotN |-> "Hat & sunglasses; light fabrics"]
                            \o [j \in 1..coldN |-> "Warm layer / light jacket"],
         toiletries  |-> <<"Toothbrush/toothpaste", "Deodorant", "Sunscreen">>,
         electronics |-> <<"Power adapter", "Power bank">>]

\* build_packing_list(forecast_days); 27 and 10 degrees, 2.0 mm, in tenths
build_packing_list(forecast_days) ==
    LET n    == Len(forecast_days)
        hot  == \E i \in 1..n : forecast_days[i].temp_day_c >= 270
        cold == \E i \in 1..n : forecast_days[i].temp_day_c <= 100
        wet  == \E i \in 1..n : forecast_days[i].precipitation_mm >= 20
        essentials == <<"Passport/ID", "Wallet", "Phone + charger", "Meds", "Reusable bottle">>
        clothing   == <<"Walking shoes", "Socks/underwear", "Tops/bottoms">>
        clothing1  == IF n > 0 /\ hot
                      THEN Append(clothing, "Hat & sunglasses; light fabrics") ELSE clothing
        clothing2  == IF n > 0 /\ cold
                      THEN Append(clothing1, "Warm layer / light jacket") ELSE clothing1
    IN  [essentials  |-> IF n > 0 /\ wet
                         THEN Append(essentials, "Compact umbrella / rain jacket")
                         ELSE essentials,
         clothing    |-> clothing2,
         toiletries  |-> <<"Toothbrush/toothpaste", "Deodorant", "Sunscreen">>,
         electronics |-> <<"Power adapter", "Power bank">>]

\* summarize_context(dest_label, forecast_days, pois, events); weather is
\* empty for "(not available)", else the first day's condition, day and
\* night temperature and rain, each rounded to a whole number (":.0f")
summarize_context(dest_label, forecast_days, pois, events) ==
    [label |-> dest_label,
     weather |-> IF Len(forecast_days) = 0 THEN <<>>
                 ELSE LET first == forecast_days[1]
                      IN  << [condition |-> first.condition,
                              day |-> RoundHalfEven(first.temp_day_c, 10),
                              night |-> RoundHalfEven(first.temp_night_c, 10),
                              precip |-> RoundHalfEven(first.precipitation_mm, 10)] >>,
     sights |-> Len(pois),
     events |-> Len(events),
     polished |-> FALSE]

\* What maybe_polish meets in one request: settings.OPENAI_API_KEY unset,
\* ChatOpenAI not importable, or a language model that fails in one of
\* three ways or replies. (The key is read by maybe_polish alone, so
\* whether it is set is drawn where it is read.)
LLMBehaviours ==
    {"no_key", "no_library", "constructor_raises", "invoke_raises", "bad_reply", "reply"}

\* The try block of maybe_polish: ChatOpenAI(...), llm.invoke(...) and
\* msg.content.strip() give a text or raise.
PolishTry(text, l) ==
    IF l = "constructor_raises" THEN [raised |-> "ValidationError", value |-> text]
    ELSE IF l = "invoke_raises" THEN [raised |-> "APIConnectionError", value |-> text]
    ELSE IF l = "bad_reply" THEN [raised |-> "AttributeError", value |-> text]
    ELSE [raised |-> "none", value |-> [text EXCEPT !.polished = TRUE]]

\* except APIConnectionError instead of except Exception
PolishCatchesApiErrors(e) == e = "APIConnectionError"

\* except Exception: all three are subclasses of Exception
PolishCatches(e) == e \in {"ValidationError", "APIConnectionError", "AttributeError"}

\* maybe_polish(text): what it returns, or the exception that leaves it
PolishOutcome(text, l) ==
    IF l \in {"no_key", "no_library"} THEN [raised |-> "none", value |-> text]
    ELSE LET t == PolishTry(text, l)
         IN  IF t.raised # "none" /\ PolishCatches(t.raised)
             THEN [raised |-> "none", value |-> text]  \* except Exception: return text
             ELSE t

maybe_polish(text, l) == PolishOutcome(text, l).value

\* whether the first maybe_polish of a request (that of the summary) raises
PolishRaised(text, l) == PolishOutcome(text, l).raised # "none"

\* the DayPlan of the response, every text polished
PolishDay(dp, l) ==
    [day |-> dp.day, date |-> dp.date,
     morning |-> maybe_polish(dp.morning, l),
     afternoon |-> maybe_polish(dp.afternoon, l),
     evening |-> maybe_polish(dp.evening, l),
     meals |-> [j \in 1..Len(dp.meals) |-> maybe_polish(dp.meals[j], l)]]

NoResponse == <<>>

\* plan_trip, steps 3 to 5: the TripResponse (a one-element sequence, so
\* that "no response" is the empty sequence)
BuildResponse(g, d, dates, forecast_days, pois, events, l) ==
    LET label == <<g.name, g.country>>
        daily == BuildDaily(dates, pois, events)
    IN  << [destination |-> label,
            days |-> d,
            summary |-> maybe_polish(summarize_context(label, forecast_days, pois, events), l),
            daily_itinerary |-> [i \in 1..Len(daily) |-> PolishDay(daily[i], l)],
            packing_list |-> build_packing_list(forecast_days),
            context |-> [geo |-> g, forecast |-> forecast_days, pois |-> pois,
                         events |-> events]] >>

\* ------------------------------------------------------------------------
\* State
\* ------------------------------------------------------------------------
VARIABLES
    settings,   \* Settings: whether TICKETMASTER_API_KEY is set
    ppc,        \* where plan_trip is: idle, geocode, gather, returned, raised
                \* (none: no request, only a call of _get_json)
    client,     \* the request's httpx.AsyncClient: none, open, closed
    days,       \* req.days
    today,      \* datetime.utcnow().date() read at the start of plan_trip
    call,       \* the state of each call of _get_json
    task,       \* the three asyncio tasks of the fan-out
    outer,      \* the future asyncio.gather returns
    geo,        \* what geocode returned (a one-element sequence), or <<>>
    resp,       \* the TripResponse returned (a one-element sequence), or <<>>
    perr,       \* the exception plan_trip raised, or NoErr
    llm,        \* how the language model behaved for this request
    fin,        \* the arguments of a function run on its own, or <<>>
    fout,       \* what that function returned, or <<>>
    main        \* the workflow of src/main.py: its TripState and position

vars == <<settings, ppc, client, days, today, call, task, outer, geo, resp, perr, llm,
         fin, fout, main>>

\* no workflow of src/main.py is running
NoMain == [node |-> "none"]

NoTask == [st |-> "none", val |-> <<>>, exc |-> NoErr]
NoOuter == [st |-> "none", exc |-> NoErr]

SettingsSet == [TICKETMASTER_API_KEY : BOOLEAN]

\* The state after import: settings read, no request yet.
Init ==
    /\ settings \in SettingsSet
    /\ ppc = "idle"
    /\ client = "none"
    /\ days = 0
    /\ today = 0
    /\ call = [c \in CallIds |-> IdleCall]
    /\ task = [b \in Branches |-> NoTask]
    /\ outer = NoOuter
    /\ geo = <<>>
    /\ resp = NoResponse
    /\ perr = NoErr
    /\ llm = "unasked"
    /\ fin = <<>>
    /\ fout = <<>>
    /\ main = NoMain

\* ------------------------------------------------------------------------
\* Upstream answers explored for a request
\* ------------------------------------------------------------------------
\* a 404 and a 503, besides the 200 answers
TripFailures == {Answer(s, FALSE, <<>>) : s \in {404, 503}}
TripAnswers(bodies) == {Answer(200, TRUE, b) : b \in bodies} \cup TripFailures

\* ------------------------------------------------------------------------
\* plan_trip up to the fan-out
\* ------------------------------------------------------------------------
\* plan_trip raises e: the `async with` block closes the client on the way
PlanTripRaises(e) ==
    /\ ppc' = "raised"
    /\ perr' = e
    /\ client' = "closed"

\* POST /plan-trip with days d at clock reading t: the client is opened and
\* geocode sends its first request.
PlanTripStart(d, t) ==
    /\ ppc = "idle"
    /\ ppc' = "geocode"
    /\ days' = d
    /\ today' = t
    /\ client' = "open"
    /\ call' = [call EXCEPT !.geocode = SendAttempt(@, "open")]
    /\ UNCHANGED <<settings, task, outer, geo, resp, perr, llm, fin, fout, main>>

\* fc_task, poi_task, evt_task = asyncio.create_task(...); gather(...)
TasksCreated == [b \in Branches |-> [st |-> "created", val |-> <<>>, exc |-> NoErr]]

\* As GeocodeAnswer, without the test `if not results`: an empty result
\* list goes on to the fan-out with a place of defaults.
GeocodeAnswerNoCheck(o) ==
    /\ ppc = "geocode"
    /\ call.geocode.pc = "inflight"
    /\ LET cr == GetJsonStep(call.geocode, o)
       IN  /\ call' = [call EXCEPT !.geocode = cr]
           /\ IF cr.pc = "backoff"
              THEN UNCHANGED <<ppc, perr, client, geo, task, outer>>
              ELSE IF cr.pc = "raised"
              THEN PlanTripRaises(cr.err) /\ UNCHANGED <<geo, task, outer>>
              ELSE /\ geo' = IF GeocodeFound(cr.value) THEN <<GeocodeOut(cr.value)>>
                             ELSE <<[name |-> "", country |-> "", lat |-> 0, lon |-> 0,
                                     timezone |-> "UTC"]>>
                   /\ task' = TasksCreated
                   /\ outer' = [st |-> "pending", exc |-> NoErr]
                   /\ ppc' = "gather"
                   /\ UNCHANGED <<perr, client>>
    /\ UNCHANGED <<settings, days, today, resp, llm, fin, fout, main>>

\* The answer to geocode's request: retry, fail the request, or go on to
\* the fan-out.
GeocodeAnswer(o) ==
    /\ ppc = "geocode"
    /\ call.geocode.pc = "inflight"
    /\ LET cr == GetJsonStep(call.geocode, o)
       IN  /\ call' = [call EXCEPT !.geocode = cr]
           /\ IF cr.pc = "backoff"
              THEN UNCHANGED <<ppc, perr, client, geo, task, outer>>
              ELSE IF cr.pc = "raised"
              THEN PlanTripRaises(cr.err) /\ UNCHANGED <<geo, task, outer>>
              ELSE IF ~GeocodeFound(cr.value)
              THEN PlanTripRaises(DestinationNotFound) /\ UNCHANGED <<geo, task, outer>>
              ELSE /\ geo' = <<GeocodeOut(cr.value)>>
                   /\ task' = TasksCreated
                   /\ outer' = [st |-> "pending", exc |-> NoErr]
                   /\ ppc' = "gather"
                   /\ UNCHANGED <<perr, client>>
    /\ UNCHANGED <<settings, days, today, resp, llm, fin, fout, main>>

\* geocode's backoff sleep ends: the next attempt is sent
GeocodeBackoff ==
    /\ ppc = "geocode"
    /\ call.geocode.pc = "backoff"
    /\ call' = [call EXCEPT !.geocode = SendAttempt(@, client)]
    /\ UNCHANGED <<settings, ppc, client, days, today, task, outer, geo, resp, perr, llm, fin, fout, main>>

\* ------------------------------------------------------------------------
\* The fan-out: three tasks and asyncio.gather
\* ------------------------------------------------------------------------
Running == [st |-> "running", val |-> <<>>, exc |-> NoErr]
DoneWith(v) == [st |-> "done", val |-> v, exc |-> NoErr]
FailedWith(e) == [st |-> "failed", val |-> <<>>, exc |-> e]

BranchOf(c) ==
    IF c = "forecast" THEN "forecast"
    ELSE IF c = "events" THEN "ticketmaster_events"
    ELSE "wiki_pois"
BranchCalls == CallIds \ {"geocode"}

\* gather(..., return_exceptions=True): a failed task counts as a result
GatherCallbackReturnExceptions(o, t, b) ==
    IF o.st # "pending" THEN o
    ELSE IF \A x \in Branches : t[x].st \in {"done", "failed"}
    THEN [st |-> "result", exc |-> NoErr]
    ELSE o

\* A callback that completes the outer future only when all three tasks
\* succeeded: after a failed task the future stays pending for ever.
GatherCallbackIgnoresFailure(o, t, b) ==
    IF o.st # "pending" THEN o
    ELSE IF \A x \in Branches : t[x].st = "done" THEN [st |-> "result", exc |-> NoErr]
    ELSE o

\* gather's callback when task b is done, t being the tasks after it: the
\* first exception completes the outer future at once, otherwise the last
\* result does; a future already completed ignores the rest.
GatherCallback(o, t, b) ==
    IF o.st # "pending" THEN o
    ELSE IF t[b].st = "failed" THEN [st |-> "exc", exc |-> t[b].exc]
    ELSE IF \A x \in Branches : t[x].st = "done" THEN [st |-> "result", exc |-> NoErr]
    ELSE o

\* As BranchEffect, with wiki_pois and ticketmaster_events appending to
\* one shared list `out` instead of a local each: when the events finish
\* after the POIs, the POIs already returned are gone.
BranchEffectSharedOut(b, nc, t) ==
    LET nt == [task EXCEPT ![b] = t,
                           !.wiki_pois = IF b = "ticketmaster_events" /\ t.st = "done"
                                            /\ @.st = "done"
                                         THEN DoneWith(<<>>) ELSE @]
    IN  /\ call' = nc
        /\ task' = nt
        /\ outer' = IF t.st \in {"done", "failed"}
                    THEN GatherCallback(outer, nt, b)
                    ELSE outer
        /\ UNCHANGED <<settings, ppc, client, days, today, geo, resp, perr, llm, fin, fout, main>>

\* A step of task b that leaves the calls as nc and the task as t.
BranchEffect(b, nc, t) ==
    /\ call' = nc
    /\ task' = [task EXCEPT ![b] = t]
    /\ outer' = IF t.st \in {"done", "failed"}
                THEN GatherCallback(outer, [task EXCEPT ![b] = t], b)
                ELSE outer
    /\ UNCHANGED <<settings, ppc, client, days, today, geo, resp, perr, llm, fin, fout, main>>

\* ticketmaster_events without its first two lines
EventsAlwaysEnabled(s) == TRUE

\* if not settings.TICKETMASTER_API_KEY: return []
EventsEnabled(s) == s.TICKETMASTER_API_KEY

\* plan_trip suspends in gather and the three tasks run up to their first
\* await: forecast and wiki_pois send a request, ticketmaster_events does
\* so only with a key and otherwise returns [].
RunTasks ==
    /\ ppc = "gather"
    /\ \A b \in Branches : task[b].st = "created"
    /\ LET ev == EventsEnabled(settings)
           t  == [b \in Branches |->
                    IF b = "ticketmaster_events" /\ ~ev THEN DoneWith(<<>>) ELSE Running]
       IN  /\ call' = [call EXCEPT !.forecast = SendAttempt(@, client),
                                   !.wiki_search = SendAttempt(@, client),
                                   !.events = IF ev THEN SendAttempt(@, client) ELSE @]
           /\ task' = t
           /\ outer' = IF ev THEN outer ELSE GatherCallback(outer, t, "ticketmaster_events")
    /\ UNCHANGED <<settings, ppc, client, days, today, geo, resp, perr, llm, fin, fout, main>>

\* forecast after _get_json: still retrying, failed, or the weather days
ForecastTask(cr, d) ==
    IF cr.pc = "backoff" THEN Running
    ELSE IF cr.pc = "raised" THEN FailedWith(cr.err)
    ELSE IF ForecastRaises(cr.value, d) THEN FailedWith(Err("IndexError", 0, 0))
    ELSE DoneWith(ForecastOut(cr.value, d))

ForecastAnswer(o) ==
    /\ task.forecast.st = "running"
    /\ call.forecast.pc = "inflight"
    /\ LET cr == GetJsonStep(call.forecast, o)
       IN  BranchEffect("forecast", [call EXCEPT !.forecast = cr], ForecastTask(cr, days))

\* wiki_pois without `if not pages: return []`: the detail request is sent
\* whatever the geosearch returned
WikiSearchAnswerNoShortCircuit(o) ==
    /\ task.wiki_pois.st = "running"
    /\ call.wiki_search.pc = "inflight"
    /\ LET cr  == GetJsonStep(call.wiki_search, o)
           det == SendAttempt(call.wiki_detail, client)
       IN  IF cr.pc = "backoff"
           THEN BranchEffect("wiki_pois", [call EXCEPT !.wiki_search = cr], Running)
           ELSE IF cr.pc = "raised"
           THEN BranchEffect("wiki_pois", [call EXCEPT !.wiki_search = cr], FailedWith(cr.err))
           ELSE BranchEffect("wiki_pois",
                             [call EXCEPT !.wiki_search = cr, !.wiki_detail = det],
                             IF det.pc = "raised" THEN FailedWith(det.err) ELSE Running)

\* wiki_pois after the geosearch: no pages returns [], otherwise the detail
\* request is sent at once
WikiSearchAnswer(o) ==
    /\ task.wiki_pois.st = "running"
    /\ call.wiki_search.pc = "inflight"
    /\ LET cr  == GetJsonStep(call.wiki_search, o)
           det == SendAttempt(call.wiki_detail, client)
       IN  IF cr.pc = "backoff"
           THEN BranchEffect("wiki_pois", [call EXCEPT !.wiki_search = cr], Running)
           ELSE IF cr.pc = "raised"
           THEN BranchEffect("wiki_pois", [call EXCEPT !.wiki_search = cr], FailedWith(cr.err))
           ELSE IF Len(cr.value) = 0
           THEN BranchEffect("wiki_pois", [call EXCEPT !.wiki_search = cr], DoneWith(<<>>))
           ELSE BranchEffect("wiki_pois",
                             [call EXCEPT !.wiki_search = cr, !.wiki_detail = det],
                             IF det.pc = "raised" THEN FailedWith(det.err) ELSE Running)

\* wiki_pois after the detail fetch
WikiDetailAnswer(o) ==
    /\ task.wiki_pois.st = "running"
    /\ call.wiki_detail.pc = "inflight"
    /\ LET cr == GetJsonStep(call.wiki_detail, o)
       IN  BranchEffect("wiki_pois", [call EXCEPT !.wiki_detail = cr],
                        IF cr.pc = "backoff" THEN Running
                        ELSE IF cr.pc = "raised" THEN FailedWith(cr.err)
                        ELSE DoneWith(WikiOut(call.wiki_search.value, cr.value)))

\* ticketmaster_events after _get_json
EventsAnswer(o) ==
    /\ task.ticketmaster_events.st = "running"
    /\ call.events.pc = "inflight"
    /\ LET cr == GetJsonStep(call.events, o)
       IN  BranchEffect("ticketmaster_events", [call EXCEPT !.events = cr],
                        IF cr.pc = "backoff" THEN Running
                        ELSE IF cr.pc = "raised" THEN FailedWith(cr.err)
                        ELSE DoneWith(EventsOut(cr.value)))

\* The backoff sleep of call c of a task ends: the next attempt is sent (on
\* a client closed meanwhile it raises, which ends the task).
BranchBackoff(c) ==
    /\ task[BranchOf(c)].st = "running"
    /\ call[c].pc = "backoff"
    /\ LET cr == SendAttempt(call[c], client)
       IN  BranchEffect(BranchOf(c), [call EXCEPT ![c] = cr],
                        IF cr.pc = "raised" THEN FailedWith(cr.err) ELSE Running)

\* await asyncio.gather(...) raises the first exception of a task
GatherRaise ==
    /\ ppc = "gather"
    /\ outer.st = "exc"
    /\ PlanTripRaises(outer.exc)
    /\ UNCHANGED <<settings, days, today, call, task, outer, geo, resp, llm, fin, fout, main>>

\* await asyncio.gather(...) returns the three results: the client is
\* closed, the response is built (steps 3 to 5) and returned.
GatherReturn(l) ==
    /\ ppc = "gather"
    /\ outer.st = "result"
    /\ client' = "closed"
    /\ llm' = l
    /\ LET label   == <<geo[1].name, geo[1].country>>
           summary == summarize_context(label, task.forecast.val, task.wiki_pois.val,
                                        task.ticketmaster_events.val)
       IN  IF PolishRaised(summary, l)
           THEN /\ ppc' = "raised"
                /\ perr' = Err(PolishOutcome(summary, l).raised, 0, 0)
                /\ resp' = resp
           ELSE /\ ppc' = "returned"
                /\ perr' = perr
                /\ resp' = BuildResponse(geo[1], days, TripDates(today, days), task.forecast.val,
                                         task.wiki_pois.val, task.ticketmaster_events.val, l)
    /\ UNCHANGED <<settings, days, today, call, task, outer, geo, fin, fout, main>>

Next ==
    \/ \E d \in 1..MaxDays, t \in Todays : PlanTripStart(d, t)
    \/ \E o \in TripAnswers(GeocodeBodies) : GeocodeAnswer(o)
    \/ GeocodeBackoff
    \/ RunTasks
    \/ \E o \in TripAnswers(ForecastBodies) : ForecastAnswer(o)
    \/ \E o \in TripAnswers(SearchBodies) : WikiSearchAnswer(o)
    \/ \E o \in TripAnswers(DetailBodies(call.wiki_search.value)) : WikiDetailAnswer(o)
    \/ \E o \in TripAnswers(EventsBodies) : EventsAnswer(o)
    \/ \E c \in BranchCalls : BranchBackoff(c)
    \/ GatherRaise
    \/ \E l \in LLMBehaviours : GatherReturn(l)

Spec == Init /\ [][Next]_vars

\* The steps a request takes once it has arrived, the upstream answers
\* being 404, 503 or one of the given bodies.
RequestStep(geocodes, forecasts, searches, events, llms) ==
    \/ \E o \in TripAnswers(geocodes) : GeocodeAnswer(o)
    \/ GeocodeBackoff
    \/ RunTasks
    \/ \E o \in TripAnswers(forecasts) : ForecastAnswer(o)
    \/ \E o \in TripAnswers(searches) : WikiSearchAnswer(o)
    \/ \E o \in TripAnswers(DetailBodies(call.wiki_search.value)) : WikiDetailAnswer(o)
    \/ \E o \in TripAnswers(events) : EventsAnswer(o)
    \/ \E c \in BranchCalls : BranchBackoff(c)
    \/ GatherRaise
    \/ \E l \in llms : GatherReturn(l)

\* A request of one day under fairness: every attempt meets a success, a
\* transient failure (503) or a permanent one (404), a geosearch finds a
\* page or none, and the language model replies or fails.
LiveStep ==
    RequestStep(GeocodeBodies, {Daily(1, 0)}, {SearchBody(0), SearchBody(1)}, {EventsBody(1)},
                {"reply", "invoke_raises"})

NextLive ==
    \/ PlanTripStart(1, 365)
    \/ LiveStep

\* The event loop runs every callback that is ready, each HTTP attempt is
\* answered or times out (the client's timeout) and each backoff sleep
\* ends: a step that stays possible is eventually taken.
SpecLive == Init /\ [][NextLive]_vars /\ WF_vars(LiveStep)

\* ------------------------------------------------------------------------
\* One call of _get_json on its own
\* ------------------------------------------------------------------------
\* statuses answered: connect/timeout failure (0), 2xx, 4xx, 5xx
FetchStatuses == {0, 400, 403, 404, 429, 500, 503}
FetchAnswers ==
    {Answer(200, TRUE, b) : b \in {<<>>, <<1>>}}
        \cup {Answer(200, FALSE, <<>>)}
        \cup {Answer(s, FALSE, <<>>) : s \in FetchStatuses}

\* one call has sent its first request on an open client
InitFetch ==
    /\ settings \in SettingsSet
    /\ ppc = "none"
    /\ client = "open"
    /\ days = 0
    /\ today = 0
    /\ \E c \in CallIds :
          call = [x \in CallIds |-> IF x = c THEN SendAttempt(IdleCall, "open") ELSE IdleCall]
    /\ task = [b \in Branches |-> NoTask]
    /\ outer = NoOuter
    /\ geo = <<>>
    /\ resp = NoResponse
    /\ perr = NoErr
    /\ llm = "unasked"
    /\ fin = <<>>
    /\ fout = <<>>
    /\ main = NoMain

FetchAnswer(c, o) ==
    /\ ppc = "none"
    /\ call[c].pc = "inflight"
    /\ call' = [call EXCEPT ![c] = GetJsonStep(@, o)]
    /\ UNCHANGED <<settings, ppc, client, days, today, task, outer, geo, resp, perr, llm, fin, fout, main>>

FetchBackoff(c) ==
    /\ ppc = "none"
    /\ call[c].pc = "backoff"
    /\ call' = [call EXCEPT ![c] = SendAttempt(@, client)]
    /\ UNCHANGED <<settings, ppc, client, days, today, task, outer, geo, resp, perr, llm, fin, fout, main>>

NextFetch ==
    \/ \E c \in CallIds, o \in FetchAnswers : FetchAnswer(c, o)
    \/ \E c \in CallIds : FetchBackoff(c)

SpecFetch == InitFetch /\ [][NextFetch]_vars

\* ------------------------------------------------------------------------
\* The pure functions run on their own
\* ------------------------------------------------------------------------
\* the variables of a request, at rest while a function runs on its own
appvars == <<settings, ppc, client, days, today, call, task, outer, geo, resp, perr, llm>>

AtRest ==
    /\ settings = [TICKETMASTER_API_KEY |-> FALSE]
    /\ ppc = "none"
    /\ client = "none"
    /\ days = 0
    /\ today = 0
    /\ call = [c \in CallIds |-> IdleCall]
    /\ task = [b \in Branches |-> NoTask]
    /\ outer = NoOuter
    /\ geo = <<>>
    /\ resp = NoResponse
    /\ perr = NoErr
    /\ llm = "unasked"

\* build_packing_list: weather sequences of up to MaxWeather days, the day
\* temperatures on both sides of 10 and 27 degrees and the rain on both
\* sides of 2.0 mm (in tenths)
MaxWeather == 3
PackingDays ==
    {[date |-> 0, temp_day_c |-> t, temp_night_c |-> t - 80, precipitation_mm |-> p,
      condition |-> "Mixed"] : t \in {100, 101, 269, 270}, p \in {19, 20}}
WeatherSeqs == UNION {[1..n -> PackingDays] : n \in 0..MaxWeather}

InitPacking ==
    /\ AtRest
    /\ fin \in {[fn |-> "build_packing_list", forecast_days |-> w] : w \in WeatherSeqs}
    /\ fout = <<>>
    /\ main = NoMain

\* packing = build_packing_list(forecast_days)
PackingRun ==
    /\ Len(fout) = 0
    /\ fin.fn = "build_packing_list"
    /\ fout' = <<build_packing_list(fin.forecast_days)>>
    /\ UNCHANGED <<appvars, fin, main>>

SpecPacking == InitPacking /\ [][PackingRun]_vars

\* plan_blocks over a whole trip: every number of days a TripRequest
\* admits, POI lists of up to MaxPois + 1 places and event lists of up to
\* MaxEvents + 1 events, all with different names
DaysLimit == 21
PoiList(P) == [i \in 1..P |-> [name |-> i, distance_km |-> 0]]
EventList(E) == [i \in 1..E |-> [title |-> 100 + i, venue |-> 200 + i]]

InitItinerary ==
    /\ AtRest
    /\ fin \in {[fn |-> "plan_blocks", days |-> d, pois |-> PoiList(P), events |-> EventList(E)] :
                    d \in 1..DaysLimit, P \in 0..(MaxPois + 1), E \in 0..(MaxEvents + 1)}
    /\ fout = <<>>
    /\ main = NoMain

\* for i, d in enumerate(dates): daily.append(plan_blocks(i, d, pois, events))
ItineraryRun ==
    /\ Len(fout) = 0
    /\ fin.fn = "plan_blocks"
    /\ fout' = <<BuildDaily(TripDates(365, fin.days), fin.pois, fin.events)>>
    /\ UNCHANGED <<appvars, fin, main>>

SpecItinerary == InitItinerary /\ [][ItineraryRun]_vars

\* forecast after its _get_json returned: every number of days a
\* TripRequest admits against "daily" objects of up to MaxDates dates,
\* with parallel arrays or with a temperature array one entry short
MaxDates == 7
ShortMaxs(daily) == [daily EXCEPT ![2] = SubSeq(@, 1, Len(@) - 1)]
DailyObjects ==
    {Daily(n, v) : n \in 0..MaxDates, v \in {0, 1}}
        \cup {ShortMaxs(Daily(n, 0)) : n \in 1..MaxDates}

InitForecast ==
    /\ AtRest
    /\ fin \in {[fn |-> "forecast", days |-> d, daily |-> b] : d \in 1..DaysLimit, b \in DailyObjects}
    /\ fout = <<>>
    /\ main = NoMain

\* the loop of forecast: the weather days, or the IndexError of a short array
ForecastRun ==
    /\ Len(fout) = 0
    /\ fin.fn = "forecast"
    /\ fout' = IF ForecastRaises(fin.daily, fin.days)
               THEN <<[raised |-> "IndexError", value |-> <<>>]>>
               ELSE <<[raised |-> "none", value |-> ForecastOut(fin.daily, fin.days)]>>
    /\ UNCHANGED <<appvars, fin, main>>

SpecForecast == InitForecast /\ [][ForecastRun]_vars

\* ------------------------------------------------------------------------
\* The workflow of src/main.py
\* ------------------------------------------------------------------------
\* TripRequest of src/main.py: days: ge=1, le=30
MainDaysLimit == 30
Destinations == {"Tokyo", "Paris"}

\* A text of src/main.py is a sequence of lines.
\* _fallback_itinerary(destination, days): the header and one line per day
_fallback_itinerary(destination, d) ==
    <<[kind |-> "Trip to", destination |-> destination, n |-> d]>>
        \o [i \in 1..d |-> [kind |-> "Day", destination |-> "", n |-> i]]

\* _fallback_packing_list(destination, itinerary): four fixed lines, the
\* last one naming the destination; the itinerary is not used
_fallback_packing_list(destination, itinerary) ==
    <<[kind |-> "Essentials", destination |-> "", n |-> 0],
      [kind |-> "Clothing", destination |-> "", n |-> 0],
      [kind |-> "Toiletries", destination |-> "", n |-> 0],
      [kind |-> "Destination-specific", destination |-> destination, n |-> 0]>>

\* resp.content.strip() of a language model asked about destination and a
\* number of days, or about an itinerary of n lines
LlmText(kind, destination, n) == <<[kind |-> kind, destination |-> destination, n |-> n]>>

\* what ChatOpenAI does in a node when the key is set
MainLLMBehaviours == {"constructor_raises", "invoke_raises", "bad_reply", "reply"}

\* The outcome of a node's LLM part: the text, or the exception that
\* leaves the node (neither node has a try statement).
NodeLlm(l, text) ==
    IF l = "constructor_raises" THEN [raised |-> "OpenAIError", text |-> <<>>]
    ELSE IF l = "invoke_raises" THEN [raised |-> "APIConnectionError", text |-> <<>>]
    ELSE IF l = "bad_reply" THEN [raised |-> "AttributeError", text |-> <<>>]
    ELSE [raised |-> "none", text |-> text]

MainIdle ==
    [node |-> "idle", key |-> FALSE,
     req |-> [destination |-> "", days |-> 0],
     state |-> [destination |-> "", days |-> 0, itinerary |-> <<>>, packing_list |-> <<>>],
     ran |-> <<>>, raised |-> "none", response |-> <<>>]

InitMain ==
    /\ AtRest
    /\ fin = <<>>
    /\ fout = <<>>
    /\ main \in {[MainIdle EXCEPT !.key = k] : k \in BOOLEAN}

\* POST /plan-trip of src/main.py: init_state is built and
\* compiled_app.invoke enters the graph at its entry point.
MainPlanTrip(destination, d) ==
    /\ main.node = "idle"
    /\ main' = [main EXCEPT !.node = "create_itinerary",
                            !.req = [destination |-> destination, days |-> d],
                            !.state = [destination |-> destination, days |-> d,
                                       itinerary |-> <<>>, packing_list |-> <<>>]]
    /\ UNCHANGED <<appvars, fin, fout>>

\* A node ran and returned the state: the edge out of it is followed.
NodeDone(name, next, st) ==
    [main EXCEPT !.node = next, !.state = st, !.ran = Append(@, name)]

\* An exception left a node: invoke raises it into plan_trip, which has no
\* handler; the request fails.
NodeRaised(name, e) ==
    [main EXCEPT !.node = "raised", !.raised = e, !.ran = Append(@, name)]

\* the node create_itinerary
CreateItinerary(l) ==
    /\ main.node = "create_itinerary"
    /\ LET destination == main.state.destination
           d == main.state.days
           r == NodeLlm(l, LlmText("itinerary", destination, d))
       IN  main' = IF ~main.key
                   THEN NodeDone("create_itinerary", "suggest_packing_list",
                                 [main.state EXCEPT !.itinerary = _fallback_itinerary(destination, d)])
                   ELSE IF r.raised # "none"
                   THEN NodeRaised("create_itinerary", r.raised)
                   ELSE NodeDone("create_itinerary", "suggest_packing_list",
                                 [main.state EXCEPT !.itinerary = r.text])
    /\ UNCHANGED <<appvars, fin, fout>>

\* the node suggest_packing_list
SuggestPackingList(l) ==
    /\ main.node = "suggest_packing_list"
    /\ LET destination == main.state.destination
           itinerary == main.state.itinerary
           r == NodeLlm(l, LlmText("packing_list", destination, Len(itinerary)))
       IN  main' = IF ~main.key
                   THEN NodeDone("suggest_packing_list", "END",
                                 [main.state EXCEPT !.packing_list =
                                      _fallback_packing_list(destination, itinerary)])
                   ELSE IF r.raised # "none"
                   THEN NodeRaised("suggest_packing_list", r.raised)
                   ELSE NodeDone("suggest_packing_list", "END",
                                 [main.state EXCEPT !.packing_list = r.text])
    /\ UNCHANGED <<appvars, fin, fout>>

\* END: invoke returns final_state and plan_trip returns the TripResponse
MainReturn ==
    /\ main.node = "END"
    /\ main' = [main EXCEPT !.node = "returned", !.ran = Append(@, "END"),
                            !.response = <<[destination |-> main.state.destination,
                                            days |-> main.state.days,
                                            itinerary |-> main.state.itinerary,
                                            packing_list |-> main.state.packing_list]>>]
    /\ UNCHANGED <<appvars, fin, fout>>

NextMain ==
    \/ \E destination \in Destinations, d \in 1..MainDaysLimit : MainPlanTrip(destination, d)
    \/ \E l \in MainLLMBehaviours : CreateItinerary(l)
    \/ \E l \in MainLLMBehaviours : SuggestPackingList(l)
    \/ MainReturn

SpecMain == InitMain /\ [][NextMain]_vars

\* ========================================================================
\* Properties of _get_json (checked under SpecFetch)
\* ========================================================================
Is4xxNot404(s) == s >= 400 /\ s < 500 /\ s # 404

\* C4, as the claim states it: a 4xx answer other than 404 is permanent;
\* its attempt is the only one of the call and the HTTP status error
\* reaches the caller as it is, not as ExternalError.
C4_Other4xxIsPermanent ==
    \A c \in CallIds : \A k \in 1..Len(call[c].hist) :
        Is4xxNot404(call[c].hist[k].status) =>
            /\ k = 1
            /\ call[c].attempts = 1
            /\ call[c].pc = "raised"
            /\ call[c].err = Err("HTTPStatusError", call[c].hist[k].status, 1)

\* C4, amended: a 4xx answer other than 404 is turned into ExternalError
\* and retried like a transient failure; when it answers an attempt
\* before the MAX_RETRIES-th another attempt follows (or its backoff is
\* running), and when it answers the MAX_RETRIES-th the ExternalError of
\* that attempt reaches the caller.
C4_Other4xxIsRetried ==
    \A c \in CallIds : \A k \in 1..Len(call[c].hist) :
        Is4xxNot404(call[c].hist[k].status) =>
            /\ call[c].hist[k].raised = "ExternalError"
            /\ IF k < MAX_RETRIES
               THEN \/ call[c].attempts > k
                    \/ /\ call[c].pc = "backoff"
                       /\ call[c].err = Err("ExternalError", call[c].hist[k].status, k)
               ELSE /\ call[c].pc = "raised"
                    /\ call[c].err = Err("ExternalError", call[c].hist[k].status, k)

\* a call whose first answer was a 400 and that has sent a second request
C4_Witness ==
    \E c \in CallIds :
        /\ Len(call[c].hist) = 1
        /\ call[c].hist[1].status = 400
        /\ call[c].pc = "inflight"
        /\ call[c].attempts = 2

\* C5, as the claim states it: a connect/timeout failure (no response
\* object) is classified as ExternalError and retried; another attempt
\* follows while fewer than MAX_RETRIES were made, and after the last one
\* an ExternalError reaches the caller.
C5_ConnectionFailureIsRetried ==
    \A c \in CallIds : \A k \in 1..Len(call[c].hist) :
        call[c].hist[k].status = 0 =>
            /\ call[c].hist[k].raised = "ExternalError"
            /\ IF k < MAX_RETRIES
               THEN call[c].attempts > k \/ call[c].pc = "backoff"
               ELSE call[c].pc = "raised" /\ call[c].err.cls = "ExternalError"

\* C6: a 404 answer ends the call at that attempt, whatever its number:
\* the HTTP status error is raised to the caller (no ExternalError) and no
\* further request is sent.
C6_NotFoundIsPermanent ==
    \A c \in CallIds : \A k \in 1..Len(call[c].hist) :
        call[c].hist[k].status = 404 =>
            /\ k = Len(call[c].hist)
            /\ call[c].attempts = k
            /\ HttpAttempts(call[c]) = k
            /\ call[c].pc = "raised"
            /\ call[c].err = Err("HTTPStatusError", 404, k)
            /\ call[c].err.cls # "ExternalError"

\* a 404 on the second attempt, with one attempt still allowed
C6_Witness ==
    \E c \in CallIds :
        /\ Len(call[c].hist) = 2
        /\ call[c].hist[1].status = 503
        /\ call[c].hist[2].status = 404
        /\ call[c].pc = "raised"
        /\ call[c].attempts < MAX_RETRIES

\* C7: a call never makes more than MAX_RETRIES attempts; an attempt is
\* followed by another only if it raised ExternalError; and when
\* MAX_RETRIES attempts all raised ExternalError the caller gets the
\* ExternalError of the last of them.
C7_BoundedRetry ==
    \A c \in CallIds :
        LET cr == call[c]
            n  == Len(cr.hist)
        IN  /\ cr.attempts <= MAX_RETRIES
            /\ HttpAttempts(cr) <= MAX_RETRIES
            /\ \A k \in 1..n : (k < cr.attempts \/ cr.pc = "backoff") =>
                                   cr.hist[k].raised = "ExternalError"
            /\ (n = MAX_RETRIES /\ \A k \in 1..n : cr.hist[k].raised = "ExternalError") =>
                   /\ cr.pc = "raised"
                   /\ cr.err = Err("ExternalError", cr.hist[n].status, MAX_RETRIES)

\* three transient failures with three different statuses, the last a 503
C7_Witness ==
    \E c \in CallIds :
        /\ call[c].pc = "raised"
        /\ Len(call[c].hist) = MAX_RETRIES
        /\ call[c].hist[1].status = 500
        /\ call[c].hist[MAX_RETRIES - 1].status = 429
        /\ call[c].hist[MAX_RETRIES].status = 503

\* C8: a 5xx answer raises ExternalError and, below MAX_RETRIES attempts,
\* is followed by another attempt (or its backoff is running); a call that
\* returns after only 5xx answers returns the body of the answer of its
\* last attempt, and no error is left for the caller.
C8_ServerErrorRetriedThenSuccess ==
    \A c \in CallIds :
        LET cr == call[c]
            n  == Len(cr.hist)
        IN  /\ \A k \in 1..n : cr.hist[k].status >= 500 =>
                  /\ cr.hist[k].raised = "ExternalError"
                  /\ k < MAX_RETRIES => (cr.attempts > k \/ cr.pc = "backoff")
            /\ (cr.pc = "returned" /\ \A k \in 1..(n - 1) : cr.hist[k].status >= 500) =>
                  /\ n = cr.attempts
                  /\ n <= MAX_RETRIES
                  /\ cr.hist[n].status = 200
                  /\ cr.value = cr.hist[n].body
                  /\ cr.err = NoErr

\* success of the last allowed attempt after a 500 and a 503
C8_Witness ==
    \E c \in CallIds :
        /\ call[c].pc = "returned"
        /\ Len(call[c].hist) = MAX_RETRIES
        /\ call[c].hist[1].status = 500
        /\ call[c].hist[MAX_RETRIES - 1].status = 503
        /\ call[c].value = <<1>>

\* ========================================================================
\* Properties of plan_trip (checked under Spec)
\* ========================================================================
\* C1: when geocode finds no result the request fails with
\* HTTPException(404, "Destination not found") and no request of forecast,
\* wiki_pois or ticketmaster_events is ever sent; in every state a request
\* of a branch has been sent only after geocode returned a place.
C1_GeocodeIsPrerequisite ==
    /\ (call.geocode.pc = "returned" /\ Len(call.geocode.value) = 0) =>
          /\ ppc = "raised"
          /\ perr = [cls |-> "HTTPException", status |-> 404, attempt |-> 0]
          /\ resp = NoResponse
          /\ \A c \in BranchCalls : call[c].attempts = 0 /\ call[c].pc = "idle"
          /\ \A b \in Branches : task[b].st = "none"
    /\ \A c \in BranchCalls : call[c].attempts > 0 =>
          /\ call.geocode.pc = "returned"
          /\ Len(call.geocode.value) > 0
          /\ Len(geo) = 1

\* geocode answered 200 with an empty result list, on its second attempt
C1_Witness ==
    /\ call.geocode.pc = "returned"
    /\ Len(call.geocode.value) = 0
    /\ call.geocode.attempts = 2
    /\ ppc = "raised"

\* C2: once one of the three tasks has raised, gather's future holds an
\* exception, plan_trip is waiting to raise it or has raised it, and no
\* TripResponse exists -- whatever the other tasks did or do.
C2_BranchFailureFailsRequest ==
    (\E b \in Branches : task[b].st = "failed") =>
        /\ outer.st = "exc"
        /\ \E b \in Branches : task[b].st = "failed" /\ outer.exc = task[b].exc
        /\ ppc \in {"gather", "raised"}
        /\ ppc = "raised" => perr = outer.exc
        /\ resp = NoResponse

\* the request has failed although two of the tasks returned their results
C2_Witness ==
    /\ ppc = "raised"
    /\ task.forecast.st = "failed"
    /\ task.wiki_pois.st = "done" /\ Len(task.wiki_pois.val) > 0
    /\ task.ticketmaster_events.st = "done" /\ Len(task.ticketmaster_events.val) > 0

\* C3, as the claim states it: when plan_trip has returned or raised, none
\* of the three tasks is still pending or running.
C3_AllBranchesJoined ==
    ppc \in {"returned", "raised"} =>
        \A b \in Branches : task[b].st \in {"none", "done", "failed"}

\* C9: a returned TripResponse has exactly `days` day plans, numbered
\* 1..days in order, the first dated today and each next one dated the
\* calendar day after the one before it -- whatever the numbers of POIs,
\* events and weather days.
NextCalendarDay(d) ==
    IF d[3] < DaysInMonth[d[2]] THEN <<d[1], d[2], d[3] + 1>>
    ELSE IF d[2] < 12 THEN <<d[1], d[2] + 1, 1>>
    ELSE <<d[1] + 1, 1, 1>>

C9_ItineraryShape ==
    ppc = "returned" =>
        LET it == resp[1].daily_itinerary
        IN  /\ days \in 1..21
            /\ resp[1].days = days
            /\ Len(it) = days
            /\ \A i \in 1..Len(it) : it[i].day = i
            /\ Len(it) > 0 => it[1].date = IsoFormat(today)
            /\ \A i \in 2..Len(it) : it[i].date = NextCalendarDay(it[i - 1].date)

\* a response for the longest trip, across the end of the year, with
\* fewer weather days than days, and with POIs and an event
C9_Witness ==
    /\ ppc = "returned"
    /\ days = MaxDays
    /\ Len(task.forecast.val) < days
    /\ Len(task.wiki_pois.val) > 0
    /\ Len(task.ticketmaster_events.val) > 0
    /\ resp[1].daily_itinerary[2].date[1] = BaseYear + 1

\* C10: without TICKETMASTER_API_KEY ticketmaster_events sends no request
\* and returns the empty list; and a response of a request without the key
\* has the same daily itinerary as one with the key whose upstream
\* answered zero events: in both the itinerary is the one built from the
\* dates and the POIs with no event (evening from the POIs or the
\* placeholder), polished the same way.
ItineraryWithoutEvents(dates, pois, l) ==
    [i \in 1..Len(dates) |-> PolishDay(plan_blocks(i - 1, dates[i], pois, <<>>), l)]

C10_NoKeyNoCall ==
    /\ ~settings.TICKETMASTER_API_KEY =>
          /\ call.events = IdleCall
          /\ task.ticketmaster_events.st \in {"none", "created", "done"}
          /\ task.ticketmaster_events.val = <<>>
    /\ ( /\ ppc = "returned"
         /\ \/ ~settings.TICKETMASTER_API_KEY
            \/ call.events.pc = "returned" /\ Len(call.events.value) = 0 ) =>
          /\ task.ticketmaster_events.val = <<>>
          /\ resp[1].context.events = <<>>
          /\ resp[1].daily_itinerary =
                 ItineraryWithoutEvents(TripDates(today, days), task.wiki_pois.val, llm)
          /\ \A i \in 1..days : resp[1].daily_itinerary[i].evening.fmt = "{}"

\* a response of a request without the key, with enough POIs for the
\* evening to fall back to one
C10_Witness ==
    /\ ppc = "returned"
    /\ ~settings.TICKETMASTER_API_KEY
    /\ call.events.attempts = 0
    /\ Len(task.wiki_pois.val) > 2
    /\ resp[1].daily_itinerary[1].evening.a.kind = "title"

\* ========================================================================
\* Properties of build_packing_list (checked under SpecPacking)
\* ========================================================================
Count(seq, x) == Cardinality({i \in 1..Len(seq) : seq[i] = x})
Bit(b) == IF b THEN 1 ELSE 0

\* C11: for every weather sequence build_packing_list returns exactly the
\* four categories, each starting with its fixed base items, and besides
\* them only: the heat item in clothing, once, iff some day is at 27
\* degrees or more; the cold item in clothing, once, iff some day is at 10
\* degrees or less; the rain item in essentials, once, iff some day has
\* 2.0 mm of rain or more. An empty sequence gives the base lists.
C11_PackingList ==
    Len(fout) = 1 =>
        LET pl   == fout[1]
            w    == fin.forecast_days
            hot  == \E i \in 1..Len(w) : w[i].temp_day_c >= 270
            cold == \E i \in 1..Len(w) : w[i].temp_day_c <= 100
            wet  == \E i \in 1..Len(w) : w[i].precipitation_mm >= 20
            ess  == <<"Passport/ID", "Wallet", "Phone + charger", "Meds", "Reusable bottle">>
            clo  == <<"Walking shoes", "Socks/underwear", "Tops/bottoms">>
        IN  /\ DOMAIN pl = {"essentials", "clothing", "toiletries", "electronics"}
            /\ SubSeq(pl.essentials, 1, 5) = ess
            /\ SubSeq(pl.clothing, 1, 3) = clo
            /\ pl.toiletries = <<"Toothbrush/toothpaste", "Deodorant", "Sunscreen">>
            /\ pl.electronics = <<"Power adapter", "Power bank">>
            /\ Count(pl.clothing, "Hat & sunglasses; light fabrics") = Bit(hot)
            /\ Count(pl.clothing, "Warm layer / light jacket") = Bit(cold)
            /\ Count(pl.essentials, "Compact umbrella / rain jacket") = Bit(wet)
            /\ Len(pl.clothing) = 3 + Bit(hot) + Bit(cold)
            /\ Len(pl.essentials) = 5 + Bit(wet)
            /\ Len(w) = 0 => (pl.essentials = ess /\ pl.clothing = clo)

\* two hot days and a cold one, two of them wet: each item is there once
C11_Witness ==
    /\ Len(fout) = 1
    /\ Len(fin.forecast_days) = 3
    /\ Cardinality({i \in 1..3 : fin.forecast_days[i].temp_day_c >= 270}) = 2
    /\ Cardinality({i \in 1..3 : fin.forecast_days[i].precipitation_mm >= 20}) = 2
    /\ fout[1].clothing = <<"Walking shoes", "Socks/underwear", "Tops/bottoms",
                            "Hat & sunglasses; light fabrics", "Warm layer / light jacket">>
    /\ Len(fout[1].essentials) = 6

\* ========================================================================
\* Properties of plan_blocks (checked under SpecItinerary)
\* ========================================================================
\* C12: with no POI and no event, plan_blocks gives every day of the trip,
\* for each day index 0..20, the same three texts, built from the generic
\* placeholders only, and evaluates no subscript at all (so raises nothing).
C12_PlaceholdersOnly ==
    (Len(fout) = 1 /\ Len(fin.pois) = 0 /\ Len(fin.events) = 0) =>
        /\ Len(fout[1]) = fin.days
        /\ \A i \in 1..Len(fout[1]) :
            /\ fout[1][i].morning = Text("Explore: {}", Phrase("Neighborhood walk"), Phrase(""))
            /\ fout[1][i].afternoon = Text("Visit: {}", Phrase("Museum or gallery"), Phrase(""))
            /\ fout[1][i].evening = Text("{}", Phrase("Food market & riverfront"), Phrase(""))
            /\ PlanBlocksSubscripts(i - 1, 0, 0) = {}

\* a trip of 21 days planned without POIs and events
C12_Witness ==
    /\ Len(fout) = 1
    /\ Len(fin.pois) = 0
    /\ Len(fin.events) = 0
    /\ Len(fout[1]) = DaysLimit
    /\ fout[1][DaysLimit].day = DaysLimit
    /\ fout[1][DaysLimit].evening.a = Phrase("Food market & riverfront")

\* the name at Python index j of a list of POIs
PoiAt(pois, j) == Title(pois[j + 1].name)

\* C14: for every day index i, P POIs and E events, every subscript
\* plan_blocks evaluates is inside its list, and morning is POI[3i mod P]
\* if P >= 1, afternoon POI[(3i+1) mod P] if P > 1, evening 'Attend: title
\* @ venue' of event i if i < E, else POI[(3i+2) mod P] if P > 2, else the
\* placeholder. Event k appears on day k + 1 only, so events are never
\* wrapped and those with index >= days are not used.
C14_RotationAndEvents ==
    Len(fout) = 1 =>
        LET daily == fout[1]
            pois  == fin.pois
            evs   == fin.events
            P     == Len(pois)
            E     == Len(evs)
        IN  /\ Len(daily) = fin.days
            /\ \A d \in 1..Len(daily) :
                LET i == d - 1 IN
                /\ \A s \in PlanBlocksSubscripts(i, P, E) : 0 <= s.index /\ s.index < s.len
                /\ daily[d].morning.fmt = "Explore: {}"
                /\ daily[d].morning.a = IF P >= 1 THEN PoiAt(pois, (3 * i) % P)
                                        ELSE Phrase("Neighborhood walk")
                /\ daily[d].afternoon.fmt = "Visit: {}"
                /\ daily[d].afternoon.a = IF P > 1 THEN PoiAt(pois, (3 * i + 1) % P)
                                          ELSE Phrase("Museum or gallery")
                /\ daily[d].evening =
                       IF i < E
                       THEN Text("Attend: {} @ {}", Title(evs[i + 1].title), Title(evs[i + 1].venue))
                       ELSE IF P > 2 THEN Text("{}", PoiAt(pois, (3 * i + 2) % P), Phrase(""))
                       ELSE Text("{}", Phrase("Food market & riverfront"), Phrase(""))
            /\ \A k \in 1..E : \A d \in 1..Len(daily) :
                   (daily[d].evening.fmt = "Attend: {} @ {}" /\ daily[d].evening.a = Title(evs[k].title))
                       => d = k

\* more days than events and more events than one: the day after the last
\* event has a POI in the evening, and the rotation has wrapped
C14_Witness ==
    /\ Len(fout) = 1
    /\ Len(fin.pois) = MaxPois + 1
    /\ Len(fin.events) = MaxEvents
    /\ fin.days = MaxEvents + 2
    /\ fout[1][MaxEvents].evening.fmt = "Attend: {} @ {}"
    /\ fout[1][MaxEvents + 1].evening.fmt = "{}"
    /\ fout[1][MaxEvents + 2].morning.a # fout[1][1].morning.a

\* ========================================================================
\* Properties of maybe_polish within a request (checked under Spec)
\* ========================================================================
\* the texts of the response as they were before maybe_polish
UnpolishedResponse ==
    BuildResponse(geo[1], days, TripDates(today, days), task.forecast.val,
                  task.wiki_pois.val, task.ticketmaster_events.val, "no_key")

\* C13: maybe_polish never raises: for every text and every behaviour of
\* the language model it returns a text, the original one unless the model
\* replied; so a request whose three branches all succeeded returns a
\* response whatever the language model does, with the unpolished texts
\* when the model was unavailable or failed.
C13_PolishNeverFails ==
    (outer.st = "result" /\ ppc \in {"returned", "raised"}) =>
        /\ \A l \in LLMBehaviours :
               LET text == summarize_context(<<geo[1].name, geo[1].country>>, task.forecast.val,
                                             task.wiki_pois.val, task.ticketmaster_events.val)
               IN  /\ PolishOutcome(text, l).raised = "none"
                   /\ l # "reply" => maybe_polish(text, l) = text
        /\ ppc = "returned"
        /\ perr = NoErr
        /\ Len(resp) = 1
        /\ llm # "reply" => resp = UnpolishedResponse

\* all three branches succeeded, the language model's reply was malformed,
\* and the request returned its response with the original texts
C13_Witness ==
    /\ outer.st = "result"
    /\ llm = "bad_reply"
    /\ ppc = "returned"
    /\ Len(resp) = 1
    /\ Len(resp[1].daily_itinerary) = days
    /\ resp[1].summary.polished = FALSE
    /\ Len(task.wiki_pois.val) > 0

\* ========================================================================
\* Retries, order and outcome of a request (C16 checked under Spec, C15 and
\* C18, which are properties of steps, under the request of SpecLive)
\* ========================================================================
\* HTTP requests sent so far by the whole request
TotalHttpAttempts ==
    HttpAttempts(call.geocode) + HttpAttempts(call.forecast) + HttpAttempts(call.wiki_search)
        + HttpAttempts(call.wiki_detail) + HttpAttempts(call.events)

\* C15: retries happen inside _get_json only. Each of the five upstream
\* steps (geocode, forecast, the two of wiki_pois, ticketmaster_events) is
\* one call of _get_json with at most MAX_RETRIES HTTP attempts, so a
\* request sends at most 5 * MAX_RETRIES; and a call that has returned or
\* raised is never entered again: its attempts and outcome stay as they are.
C15_RetriesOnlyInGetJson ==
    /\ [](/\ \A c \in CallIds : /\ HttpAttempts(call[c]) <= MAX_RETRIES
                                /\ call[c].attempts <= MAX_RETRIES
          /\ TotalHttpAttempts <= 5 * MAX_RETRIES)
    /\ [][\A c \in CallIds : call[c].pc \in {"returned", "raised"} => call'[c] = call[c]]_vars

\* every one of the five steps needed all its attempts, and the request
\* returned a response
C15_Witness ==
    /\ TotalHttpAttempts = 5 * MAX_RETRIES
    /\ \A c \in CallIds : call[c].pc = "returned" /\ Len(call[c].hist) = MAX_RETRIES
    /\ ppc = "returned"

\* C16: wiki_pois takes its two steps in order. A detail attempt exists
\* only when the geosearch has returned a non-empty page list; when the
\* geosearch returned no pages wiki_pois has returned [] and no detail
\* attempt was made; when the geosearch raised, wiki_pois failed with that
\* error and no detail attempt was made.
C16_WikiStepsInOrder ==
    /\ call.wiki_detail # IdleCall =>
            /\ call.wiki_search.pc = "returned"
            /\ Len(call.wiki_search.value) > 0
    /\ (call.wiki_search.pc = "returned" /\ Len(call.wiki_search.value) = 0) =>
            /\ call.wiki_detail = IdleCall
            /\ task.wiki_pois = DoneWith(<<>>)
    /\ call.wiki_search.pc = "raised" =>
            /\ call.wiki_detail = IdleCall
            /\ task.wiki_pois = FailedWith(call.wiki_search.err)

\* the geosearch succeeded at its second attempt with pages, and the
\* detail fetch then returned
C16_Witness ==
    /\ Len(call.wiki_search.hist) = 2
    /\ call.wiki_search.pc = "returned"
    /\ Len(call.wiki_search.value) > 0
    /\ call.wiki_detail.pc = "returned"
    /\ task.wiki_pois.st = "done"
    /\ Len(task.wiki_pois.val) = Len(call.wiki_search.value)

\* ========================================================================
\* Properties of forecast (checked under SpecForecast)
\* ========================================================================
\* C17: whenever forecast returns, it returns min(days, number of upstream
\* dates) weather days, entry i built from index i of every upstream
\* array; and it does return, with the shorter sequence, when the upstream
\* has fewer dates than days (its arrays being as long as its dates).
C17_ForecastPrefix ==
    Len(fout) = 1 =>
        LET daily == fin.daily
            r     == fout[1]
        IN  /\ r.raised = "none" =>
                /\ Len(r.value) = Min(fin.days, Len(daily[1]))
                /\ \A i \in 1..Len(r.value) :
                       r.value[i] = [date |-> daily[1][i], temp_day_c |-> daily[2][i],
                                     temp_night_c |-> daily[3][i],
                                     precipitation_mm |-> daily[4][i],
                                     condition |-> code_to_text(daily[5][i])]
            /\ (\A j \in 2..5 : Len(daily[j]) = Len(daily[1])) => r.raised = "none"

\* 21 days asked, MaxDates dates answered: MaxDates weather days returned
C17_Witness ==
    /\ Len(fout) = 1
    /\ fin.days = DaysLimit
    /\ Len(fin.daily[1]) = MaxDates
    /\ fout[1].raised = "none"
    /\ Len(fout[1].value) = MaxDates
    /\ fout[1].value[MaxDates].date = fin.daily[1][MaxDates]

\* what each branch returns, as a function of the answers its own calls got
ForecastValue == ForecastOut(call.forecast.value, days)
PoisValue ==
    IF Len(call.wiki_search.value) = 0 THEN <<>>
    ELSE WikiOut(call.wiki_search.value, call.wiki_detail.value)
EventsValue ==
    IF call.events.pc = "idle" THEN <<>> ELSE EventsOut(call.events.value)

\* a step changes something of branch b: its task or one of its calls
BranchChanged(b) ==
    \/ task'[b] # task[b]
    \/ \E c \in BranchCalls : BranchOf(c) = b /\ call'[c] # call[c]

\* C18: the result does not depend on the interleaving of the branches. A
\* finished branch holds the value computed from the answers to its own
\* calls, whatever the other branches did meanwhile; a returned response is
\* BuildResponse of these three values in their roles (forecast, POIs,
\* events); and once the tasks run, no step changes the task or the calls
\* of two branches: no branch writes what another one owns.
C18_InterleavingIndependent ==
    /\ [](/\ task.forecast.st = "done" => task.forecast.val = ForecastValue
          /\ task.wiki_pois.st = "done" => task.wiki_pois.val = PoisValue
          /\ task.ticketmaster_events.st = "done" => task.ticketmaster_events.val = EventsValue
          /\ ppc = "returned" =>
                resp = BuildResponse(geo[1], days, TripDates(today, days), ForecastValue,
                                     PoisValue, EventsValue, llm))
    /\ [][(\E b \in Branches : task[b].st \in {"running", "done", "failed"}) =>
            \A b1, b2 \in Branches : (BranchChanged(b1) /\ BranchChanged(b2)) => b1 = b2]_vars

\* a response built from three branches that needed 3, 2 + 1 and 1
\* attempts, all with something to show
C18_Witness ==
    /\ ppc = "returned"
    /\ Len(call.forecast.hist) = 3
    /\ Len(call.wiki_search.hist) = 2
    /\ Len(call.wiki_detail.hist) = 1
    /\ Len(call.events.hist) = 1
    /\ Len(resp[1].context.forecast) > 0
    /\ Len(resp[1].context.pois) > 0
    /\ Len(resp[1].context.events) > 0

\* ========================================================================
\* Termination of a request (checked under SpecLive)
\* ========================================================================
\* C19: every request that has arrived reaches a final outcome, whatever
\* mix of successes, transient and permanent failures the geocode step and
\* the branches meet; the outcome is either a returned TripResponse (and no
\* error) or a raised error (and no response), and once reached it stays.
C19_RequestTerminates ==
    /\ (ppc \in {"geocode", "gather"}) ~> (ppc \in {"returned", "raised"})
    /\ [](/\ ppc = "returned" => (Len(resp) = 1 /\ perr = NoErr)
          /\ ppc = "raised" => (Len(resp) = 0 /\ perr # NoErr)
          /\ ppc \notin {"returned", "raised"} => (Len(resp) = 0 /\ perr = NoErr))
    /\ [][(ppc \in {"returned", "raised"}) => <<ppc, resp, perr>>' = <<ppc, resp, perr>>]_vars

\* geocode succeeded after a transient failure, one branch was retried to
\* the end and another failed for good: the request ended with an error
C19_Witness ==
    /\ ppc = "raised"
    /\ Len(call.geocode.hist) = 2
    /\ call.geocode.pc = "returned"
    /\ \E c \in BranchCalls : call[c].pc = "raised" /\ Len(call[c].hist) = MAX_RETRIES
    /\ \E c \in BranchCalls : call[c].pc = "raised" /\ call[c].err.cls = "HTTPStatusError"
    /\ \E c \in BranchCalls : call[c].pc = "returned"

\* ========================================================================
\* The workflow of src/main.py (checked under SpecMain)
\* ========================================================================
\* C20: every request of src/main.py runs create_itinerary, then
\* suggest_packing_list, then END, each once and in that order, so a
\* request that has ended has run all three and its packing list was made
\* after its itinerary; no node changes destination or days, so the
\* response carries those of the request; and without an OpenAI key the
\* itinerary has exactly one 'Day d' line for each d in 1..days.
C20_WorkflowRunsBothNodes ==
    /\ main.node \in {"returned", "raised"} =>
            main.ran = <<"create_itinerary", "suggest_packing_list", "END">>
    /\ main.node \in {"END", "returned"} =>
            /\ Len(main.state.itinerary) > 0
            /\ Len(main.state.packing_list) > 0
    /\ main.node # "idle" =>
            /\ main.state.destination = main.req.destination
            /\ main.state.days = main.req.days
    /\ main.node = "returned" =>
            /\ main.response[1].destination = main.req.destination
            /\ main.response[1].days = main.req.days
    /\ (~main.key /\ main.node \in {"suggest_packing_list", "END", "returned"}) =>
            \A d \in 1..main.req.days :
                Cardinality({i \in 1..Len(main.state.itinerary) :
                                /\ main.state.itinerary[i].kind = "Day"
                                /\ main.state.itinerary[i].n = d}) = 1

====
